---------------------------- MODULE Spec2Model ----------------------------
(***************************************************************************)
(* Model of the Ralph orchestrator (src/main.go): the tool dispatcher      *)
(* executeFunctionSafely with its four tool implementations, and the two   *)
(* chat/ask HTTP handlers in front of the external language-model client.  *)
(*                                                                         *)
(* Go strings are sequences of characters; a character is a one-character  *)
(* TLA+ string, except the non-ASCII rune U+00E9, written "U+00E9", which  *)
(* takes two bytes in UTF-8 (other non-ASCII runes are written the same   *)
(* way).  float64 values are exact rationals n/d,      *)
(* irrational square roots, +Inf/-Inf or NaN: inside the bounds of the     *)
(* model no finite result overflows.                                        *)
(* The string a tool returns is kept in the form the code builds it: a     *)
(* hand-built literal with an interpolated tail, the output of             *)
(* json.Marshal, or the empty string left when json.Marshal fails.         *)
(* Decode is what a caller reading that string as JSON obtains.            *)
(***************************************************************************)
EXTENDS Integers, Sequences, FiniteSets, TLC

VARIABLES name, args, pc, result, invoked,
          route, method, body, env, hpc, message, calls, upstream, resp

dvars == <<name, args, pc, result, invoked>>
hvars == <<route, method, body, env, hpc, message, calls, upstream, resp>>
vars == <<name, args, pc, result, invoked,
          route, method, body, env, hpc, message, calls, upstream, resp>>

---------------------------------------------------------------------------
(* Bounds of the model *)

MaxA == 3
MaxB == 10
MaxEmailLen == 6
MaxTextLen == 4

---------------------------------------------------------------------------
(* Strings *)

calculate == <<"c", "a", "l", "c", "u", "l", "a", "t", "e">>
get_current_time == <<"g", "e", "t", "_", "c", "u", "r", "r", "e", "n", "t", "_", "t", "i", "m", "e">>
validate_email == <<"v", "a", "l", "i", "d", "a", "t", "e", "_", "e", "m", "a", "i", "l">>
text_length_analysis == <<"t", "e", "x", "t", "_", "l", "e", "n", "g", "t", "h", "_", "a", "n", "a", "l", "y", "s", "i", "s">>

nonexistent_fn == <<"n", "o", "n", "e", "x", "i", "s", "t", "e", "n", "t", "_", "f", "n">>
Calculate == <<"C", "a", "l", "c", "u", "l", "a", "t", "e">>
calc == <<"c", "a", "l", "c">>
quoted_fn == <<"b", "a", "d", "\"", "f", "n">>
newline_fn == <<"a", "\n", "b">>

add == <<"a", "d", "d">>
subtract == <<"s", "u", "b", "t", "r", "a", "c", "t">>
multiply == <<"m", "u", "l", "t", "i", "p", "l", "y">>
divide == <<"d", "i", "v", "i", "d", "e">>
sqrt == <<"s", "q", "r", "t">>
power == <<"p", "o", "w", "e", "r">>
modulo == <<"m", "o", "d", "u", "l", "o">>
ADD == <<"A", "D", "D">>

UTC == <<"U", "T", "C">>
Local == <<"L", "o", "c", "a", "l">>
America_New_York == <<"A", "m", "e", "r", "i", "c", "a", "/", "N", "e", "w", "_", "Y", "o", "r", "k">>
Europe_London == <<"E", "u", "r", "o", "p", "e", "/", "L", "o", "n", "d", "o", "n">>
Mars_Phobos == <<"M", "a", "r", "s", "/", "P", "h", "o", "b", "o", "s">>
quoted_tz == <<"U", "\"", "C">>

(* The runes written by code point: U+0080..U+07FF take two bytes in      *)
(* UTF-8, U+0800..U+FFFF three.                                           *)
MultiByte == {"U+00E9", "U+0085", "U+00A0"}

ThreeByte == {"U+1680", "U+2000", "U+2001", "U+2002", "U+2003", "U+2004", "U+2005",
              "U+2006", "U+2007", "U+2008", "U+2009", "U+200A", "U+2028", "U+2029",
              "U+202F", "U+205F", "U+3000"}

(* unicode.IsSpace: '\t', '\n', '\v', '\f', '\r', ' ', U+0085, U+00A0 and *)
(* the characters of category Z outside Latin-1                           *)
WhiteSpace == {" ", "\t", "\n", "U+000B", "\f", "\r", "U+0085", "U+00A0"} \cup ThreeByte

(* the characters below U+0020 that the model names: JSON does not allow  *)
(* them unescaped inside a string                                         *)
ControlChars == {"\t", "\n", "U+000B", "\f", "\r"}

(* utf8.RuneLen of a character *)
RuneLen(c) == IF c \in ThreeByte THEN 3 ELSE IF c \in MultiByte THEN 2 ELSE 1

RECURSIVE ByteLen(_)
(* len(s) of a Go string: the number of bytes of its UTF-8 encoding *)
ByteLen(s) == IF s = <<>> THEN 0 ELSE RuneLen(Head(s)) + ByteLen(Tail(s))

(* len([]rune(s)): the number of characters *)
RuneCount(s) == Len(s)

(* strings.Contains(s, c) for a one-character c *)
Contains(s, c) == \E i \in 1..Len(s) : s[i] = c

(* strings.Count(s, c) for a one-character c *)
Count(s, c) == Cardinality({i \in 1..Len(s) : s[i] = c})

RECURSIVE FieldsFrom(_, _, _)
FieldsFrom(s, cur, acc) ==
    IF s = <<>> THEN (IF cur = <<>> THEN acc ELSE Append(acc, cur))
    ELSE IF Head(s) \in WhiteSpace
         THEN FieldsFrom(Tail(s), <<>>, IF cur = <<>> THEN acc ELSE Append(acc, cur))
         ELSE FieldsFrom(Tail(s), Append(cur, Head(s)), acc)

(* strings.Fields(s): the maximal runs of non-white-space characters *)
Fields(s) == FieldsFrom(s, <<>>, <<>>)

RECURSIVE StringsUpTo(_, _)
StringsUpTo(alphabet, n) ==
    IF n = 0 THEN {<<>>}
    ELSE LET shorter == StringsUpTo(alphabet, n - 1)
         IN  shorter \cup {Append(s, c) : s \in shorter, c \in alphabet}

---------------------------------------------------------------------------
(* float64 *)

Abs(x) == IF x < 0 THEN -x ELSE x

RECURSIVE Gcd(_, _)
Gcd(x, y) == IF y = 0 THEN x ELSE Gcd(y, x % y)

(* the finite float64 n/d, in lowest terms with a positive denominator *)
Fin(n, d) ==
    LET g == Gcd(Abs(n), Abs(d))
        s == IF d < 0 THEN -1 ELSE 1
    IN  [k |-> "fin", n |-> (s * n) \div g, d |-> (s * d) \div g]

PosInf == [k |-> "inf", sign |-> 1]
NegInf == [k |-> "inf", sign |-> -1]
NaN == [k |-> "nan"]

IsFinite(f) == f.k \in {"fin", "sqrt"}

(* float64(x) / float64(y) of two integers, IEEE 754 *)
FloatDiv(x, y) ==
    IF y # 0 THEN Fin(x, y)
    ELSE IF x = 0 THEN NaN
    ELSE IF x > 0 THEN PosInf ELSE NegInf

RECURSIVE ISqrt(_, _)
ISqrt(x, r) == IF (r + 1) * (r + 1) > x THEN r ELSE ISqrt(x, r + 1)

(* math.Sqrt(a) for an integral a >= 0 *)
mathSqrt(a) ==
    LET r == ISqrt(a, 0)
    IN  IF r * r = a THEN Fin(r, 1) ELSE [k |-> "sqrt", of |-> a]

RECURSIVE IntPow(_, _)
IntPow(a, n) == IF n = 0 THEN 1 ELSE a * IntPow(a, n - 1)

(* math.Pow(a, b) for integral a and b: Pow(x, 0) = 1 for every x, and    *)
(* Pow(+0, y) = +Inf for y < 0                                            *)
mathPow(a, b) ==
    IF b >= 0 THEN Fin(IntPow(a, b), 1)
    ELSE IF a = 0 THEN PosInf
    ELSE Fin(1, IntPow(a, -b))

---------------------------------------------------------------------------
(* Argument bags: map[string]interface{} *)

Keys == {"operation", "a", "b", "timezone", "email", "text"}

Absent == [t |-> "absent"]
Str(s) == [t |-> "str", s |-> s]
Num(n) == [t |-> "num", n |-> n]
Bool(b) == [t |-> "bool", b |-> b]

(* v, ok := args[key].(string) *)
IsString(v) == v.t = "str"

(* v, ok := args[key].(float64) *)
IsNumber(v) == v.t = "num"

(* fault: a failed assertion on "b" leaves 1 instead of the zero value *)
NumberOrOne(v) == IF IsNumber(v) THEN v.n ELSE 1

(* b, _ := args["b"].(float64): the zero value when the assertion fails *)
NumberOrZero(v) == IF IsNumber(v) THEN v.n ELSE 0

---------------------------------------------------------------------------
(* The strings the tools return, and their reading as JSON *)

JNumber(f) == [j |-> "number", v |-> f]
JInt(n) == [j |-> "number", v |-> Fin(n, 1)]
JString(s) == [j |-> "string", v |-> s]
JBool(b) == [j |-> "bool", v |-> b]

(* `{"error": "` + prefix + tail + `"}`, built by concatenation: the tail *)
(* is copied into the text unescaped                                      *)
ErrorLiteral(prefix, tail) == [form |-> "literal", prefix |-> prefix, tail |-> tail]

(* string(nil): what string(jsonResp) is after json.Marshal failed *)
EmptyString == [form |-> "empty"]

(* json.Marshal refuses +Inf, -Inf and NaN (UnsupportedValueError) *)
Marshalable(obj) == \A f \in DOMAIN obj : obj[f].j = "number" => IsFinite(obj[f].v)

(* jsonResp, _ := json.Marshal(response); return string(jsonResp) *)
MarshalToString(obj) == IF Marshalable(obj) THEN [form |-> "json", obj |-> obj] ELSE EmptyString

(* strings.ContainsAny(s, set) *)
ContainsAny(s, set) == \E i \in 1..Len(s) : s[i] \in set

(* What a JSON parser makes of a returned string.  The tail of a literal  *)
(* sits inside a JSON string: a raw control character there is rejected,  *)
(* and one unescaped double quote ends the string early, leaving text     *)
(* that is not JSON.                                                      *)
Decode(r) ==
    CASE r.form = "empty" -> [shape |-> "none"]
      [] r.form = "json" -> [shape |-> "object", obj |-> r.obj]
      [] r.form = "literal" /\ Count(r.tail, "\"") = 0 /\ Count(r.tail, "\\") = 0
                            /\ ~ContainsAny(r.tail, ControlChars) ->
            [shape |-> "object", obj |-> [error |-> [j |-> "message", text |-> r.prefix, arg |-> r.tail]]]
      [] r.form = "literal" /\ Count(r.tail, "\"") = 0 /\ Count(r.tail, "\\") = 0
                            /\ ContainsAny(r.tail, ControlChars) ->
            [shape |-> "invalid"]
      [] r.form = "literal" /\ Count(r.tail, "\"") = 1 /\ Count(r.tail, "\\") = 0 ->
            [shape |-> "invalid"]

IsErrorPayload(r) == Decode(r).shape = "object" /\ DOMAIN Decode(r).obj = {"error"}

IsSuccessPayload(r) == Decode(r).shape = "object" /\ "error" \notin DOMAIN Decode(r).obj

---------------------------------------------------------------------------
(* Tool implementations *)

executeCalculate(bag) ==
    IF ~IsString(bag.operation) THEN ErrorLiteral("operation parameter must be a string", <<>>)
    ELSE IF ~IsNumber(bag.a) THEN ErrorLiteral("parameter 'a' must be a number", <<>>)
    ELSE LET operation == bag.operation.s
             a == bag.a.n
             b == NumberOrZero(bag.b)
             reply(res) == MarshalToString([operation |-> JString(operation),
                                            a |-> JInt(a),
                                            result |-> JNumber(res)])
         IN  CASE operation = add -> reply(Fin(a + b, 1))
               [] operation = subtract -> reply(Fin(a - b, 1))
               [] operation = multiply -> reply(Fin(a * b, 1))
               [] operation = divide ->
                     IF b = 0 THEN ErrorLiteral("Cannot divide by zero", <<>>)
                     ELSE reply(FloatDiv(a, b))
               [] operation = sqrt ->
                     IF a < 0 THEN ErrorLiteral("Cannot calculate square root of negative number", <<>>)
                     ELSE reply(mathSqrt(a))
               [] operation = power -> reply(mathPow(a, b))
               [] OTHER -> ErrorLiteral("Unknown operation: ", operation)

(* the IANA names the time zone database of the host resolves *)
TzDatabase == {America_New_York, Europe_London}

(* time.LoadLocation: "" and "UTC" give UTC, "Local" gives Local, any     *)
(* other name is looked up in the time zone database                      *)
LoadLocation(tz) ==
    IF tz = <<>> \/ tz = UTC THEN [ok |-> TRUE, zone |-> UTC]
    ELSE IF tz = Local THEN [ok |-> TRUE, zone |-> Local]
    ELSE IF tz \in TzDatabase THEN [ok |-> TRUE, zone |-> tz]
    ELSE [ok |-> FALSE]

(* currentTime.Format(layout) of time.Now().In(loc) *)
Format(layout, instant, zone) == [j |-> "time", layout |-> layout, instant |-> instant, zone |-> zone]

(* timezone := "UTC"; if tz, ok := args["timezone"].(string); ok { timezone = tz } *)
TimezoneArg(v) == IF IsString(v) THEN v.s ELSE UTC

executeGetCurrentTime(bag, clock) ==
    LET timezone == TimezoneArg(bag.timezone)
        loc == LoadLocation(timezone)
    IN  IF ~loc.ok THEN ErrorLiteral("Invalid timezone: ", timezone)
        ELSE MarshalToString([timezone |-> JString(timezone),
                              time |-> Format("2006-01-02 15:04:05 MST", clock, loc.zone),
                              iso8601 |-> Format("RFC3339", clock, loc.zone)])

(* fault: the length test admits length 5 *)
isValidFromFive(email) == Contains(email, "@") /\ Contains(email, ".") /\ ByteLen(email) >= 5

(* strings.Contains(email, "@") && strings.Contains(email, ".") && len(email) > 5 *)
isValid(email) == Contains(email, "@") /\ Contains(email, ".") /\ ByteLen(email) > 5

ValidityMessage(v) == IF v THEN "Email format is valid" ELSE "Email format is invalid"

(* fault: a missing or mistyped "email" is read as the empty string *)
executeValidateEmailLenient(bag) ==
    LET email == IF IsString(bag.email) THEN bag.email.s ELSE <<>>
    IN  MarshalToString([email |-> JString(email),
                         valid |-> JBool(isValid(email)),
                         message |-> [j |-> "text", v |-> ValidityMessage(isValid(email))]])

executeValidateEmail(bag) ==
    IF ~IsString(bag.email) THEN ErrorLiteral("email parameter must be a string", <<>>)
    ELSE LET email == bag.email.s
         IN  MarshalToString([email |-> JString(email),
                              valid |-> JBool(isValid(email)),
                              message |-> [j |-> "text", v |-> ValidityMessage(isValid(email))]])

(* len(text), the "text_length" field *)
TextLength(text) == ByteLen(text)

(* strings.Count(text, ".") + strings.Count(text, "!") + strings.Count(text, "?") *)
SentenceCount(text) == Count(text, ".") + Count(text, "!") + Count(text, "?")

(* float64(len(text)) / float64(len(words)) *)
AverageWordLen(text) == FloatDiv(ByteLen(text), Len(Fields(text)))

executeTextAnalysis(bag) ==
    IF ~IsString(bag.text) THEN ErrorLiteral("text parameter must be a string", <<>>)
    ELSE LET text == bag.text.s
         IN  MarshalToString([text_length |-> JInt(TextLength(text)),
                              word_count |-> JInt(Len(Fields(text))),
                              character_count |-> JInt(RuneCount(text)),
                              sentence_count |-> JInt(SentenceCount(text)),
                              average_word_len |-> JNumber(AverageWordLen(text))])

---------------------------------------------------------------------------
(* Catalog and dispatcher *)

availableFunctions == <<calculate, get_current_time, validate_email, text_length_analysis>>

CatalogNames == {availableFunctions[i] : i \in DOMAIN availableFunctions}

(* the case of `switch name` that is taken *)
Route(n) ==
    CASE n = calculate -> "executeCalculate"
      [] n = get_current_time -> "executeGetCurrentTime"
      [] n = validate_email -> "executeValidateEmail"
      [] n = text_length_analysis -> "executeTextAnalysis"
      [] OTHER -> "default"

executeFunctionSafely(n, bag, clock) ==
    CASE Route(n) = "executeCalculate" -> executeCalculate(bag)
      [] Route(n) = "executeGetCurrentTime" -> executeGetCurrentTime(bag, clock)
      [] Route(n) = "executeValidateEmail" -> executeValidateEmail(bag)
      [] Route(n) = "executeTextAnalysis" -> executeTextAnalysis(bag)
      [] OTHER -> ErrorLiteral("Unknown function: ", n)

---------------------------------------------------------------------------
(* Chat/Ask bridge *)

Routes == {"/api/ask", "/api/chat"}

Methods == {"POST", "GET"}

(* request bodies: not JSON, or a JSON object with or without "message" *)
Bodies == {[json |-> FALSE, message |-> Absent],
           [json |-> TRUE, message |-> Absent],
           [json |-> TRUE, message |-> Num(1)],
           [json |-> TRUE, message |-> Str(<<>>)],
           [json |-> TRUE, message |-> Str(<<"h", "i">>)]}

(* values of os.Getenv("GEMINI_API_KEY"); unset reads as "" *)
ApiKeys == {<<>>, <<"k", "e", "y">>}

(* json.Unmarshal(body, &request): request.Message stays "" unless the    *)
(* body is a JSON object whose "message" is a string                      *)
RequestMessage(b) == IF b.json /\ IsString(b.message) THEN b.message.s ELSE <<>>

(* r.Method != http.MethodPost *)
MethodRefused(m) == m # "POST"

(* request.Message == "" *)
MessageMissing(m) == m = <<>>

(* fault: the credentials check never refuses *)
KeyNeverMissing(k) == FALSE

(* geminiAPIKey == "" *)
KeyMissing(k) == k = <<>>

(* what callGeminiAPI returns: (text, nil), the fallback text, or an error *)
callGeminiAPI == {[err |-> FALSE, text |-> "candidates[0].content.parts[0].text"],
                  [err |-> FALSE, text |-> "Unable to generate response"],
                  [err |-> TRUE, text |-> ""]}

NoCall == [err |-> FALSE, text |-> "not called"]

NoResponse == [status |-> 0, body |-> "none"]

(* http.Error(w, text, code) *)
HttpError(code, text) == [status |-> code, body |-> text]

CheckMethod ==
    /\ hpc = "method"
    /\ IF MethodRefused(method)
       THEN /\ resp' = HttpError(405, "Method not allowed")
            /\ hpc' = "done"
       ELSE /\ hpc' = "message"
            /\ UNCHANGED resp
    /\ UNCHANGED <<route, method, body, env, message, calls, upstream>>
    /\ UNCHANGED dvars

ReadMessage ==
    /\ hpc = "message"
    /\ message' = RequestMessage(body)
    /\ IF MessageMissing(message')
       THEN /\ resp' = HttpError(400, "No message provided")
            /\ hpc' = "done"
       ELSE /\ hpc' = "credentials"
            /\ UNCHANGED resp
    /\ UNCHANGED <<route, method, body, env, calls, upstream>>
    /\ UNCHANGED dvars

CheckCredentials ==
    /\ hpc = "credentials"
    /\ IF KeyMissing(env)
       THEN /\ resp' = HttpError(500, "Gemini API key not configured")
            /\ hpc' = "done"
       ELSE /\ hpc' = "call"
            /\ UNCHANGED resp
    /\ UNCHANGED <<route, method, body, env, message, calls, upstream>>
    /\ UNCHANGED dvars

CallCollaborator ==
    /\ hpc = "call"
    /\ \E outcome \in callGeminiAPI : upstream' = outcome
    /\ calls' = calls + 1
    /\ hpc' = "reply"
    /\ UNCHANGED <<route, method, body, env, message, resp>>
    /\ UNCHANGED dvars

WriteResponse ==
    /\ hpc = "reply"
    /\ resp' = IF upstream.err
               THEN HttpError(500, "Error calling Gemini API")
               ELSE [status |-> 200, body |-> upstream.text]
    /\ hpc' = "done"
    /\ UNCHANGED <<route, method, body, env, message, calls, upstream>>
    /\ UNCHANGED dvars

HandlerStep == CheckMethod \/ ReadMessage \/ CheckCredentials \/ CallCollaborator \/ WriteResponse

handleGeminiRequest == route = "/api/ask" /\ HandlerStep

handleChatWithFunctions == route = "/api/chat" /\ HandlerStep

---------------------------------------------------------------------------
(* Requests *)

Names == {calculate, get_current_time, validate_email, text_length_analysis,
          nonexistent_fn, Calculate, calc, quoted_fn, newline_fn}

Operations == {add, subtract, multiply, divide, sqrt, power, modulo, ADD}

Timezones == {<<>>, UTC, Local, America_New_York, Europe_London, Mars_Phobos, quoted_tz}

EmailAlphabet == {"a", "@", ".", "U+00E9"}

TextAlphabet == {"a", " ", "U+00A0", ".", "!", "?", "U+00E9"}

(* readings of time.Now() *)
Instants == {0, 1}

EmptyBag == [key \in Keys |-> Absent]

Mistyped == {Absent, Str(<<"1">>), Bool(TRUE)}

CalcBags ==
    {[EmptyBag EXCEPT !.operation = o, !.a = x, !.b = y] :
        o \in {Absent, Num(1)} \cup {Str(op) : op \in Operations},
        x \in Mistyped \cup {Num(n) : n \in -MaxA..MaxA},
        y \in Mistyped \cup {Num(n) : n \in -MaxB..MaxB}}

TimeBags ==
    {[EmptyBag EXCEPT !.timezone = z] :
        z \in {Absent, Num(1), Bool(TRUE)} \cup {Str(tz) : tz \in Timezones}}

EmailBags ==
    {[EmptyBag EXCEPT !.email = e] :
        e \in {Absent, Num(1)} \cup {Str(s) : s \in StringsUpTo(EmailAlphabet, MaxEmailLen)}}

TextBags ==
    {[EmptyBag EXCEPT !.text = x] :
        x \in {Absent, Num(1)} \cup {Str(s) : s \in StringsUpTo(TextAlphabet, MaxTextLen)}}

Bags == CalcBags \cup TimeBags \cup EmailBags \cup TextBags

NoResult == [form |-> "pending"]

InitDispatch ==
    /\ name \in Names
    /\ args \in Bags
    /\ pc = "call"
    /\ result = NoResult
    /\ invoked = "none"
    /\ route = "none" /\ method = "none" /\ body = [json |-> FALSE, message |-> Absent]
    /\ env = <<>> /\ hpc = "idle" /\ message = <<>> /\ calls = 0
    /\ upstream = NoCall /\ resp = NoResponse

InitHTTP ==
    /\ route \in Routes
    /\ method \in Methods
    /\ body \in Bodies
    /\ env \in ApiKeys
    /\ hpc = "method"
    /\ message = <<>>
    /\ calls = 0
    /\ upstream = NoCall
    /\ resp = NoResponse
    /\ name = <<>> /\ args = EmptyBag /\ pc = "idle"
    /\ result = NoResult /\ invoked = "none"

Init == InitDispatch \/ InitHTTP

(* one direct call executeFunctionSafely(name, args) *)
Dispatch ==
    /\ pc = "call"
    /\ \E clock \in Instants : result' = executeFunctionSafely(name, args, clock)
    /\ invoked' = Route(name)
    /\ pc' = "returned"
    /\ UNCHANGED <<name, args>>
    /\ UNCHANGED hvars

Next == Dispatch \/ handleGeminiRequest \/ handleChatWithFunctions

Spec == Init /\ [][Next]_vars

---------------------------------------------------------------------------
(* Properties *)

Returned == pc = "returned"

Obj == Decode(result).obj

SixOperations == {add, subtract, multiply, divide, sqrt, power}

AllWhiteSpace(s) == \A i \in 1..Len(s) : s[i] \in WhiteSpace

(* C1: every dispatch returns exactly one payload, a success payload or an *)
(* ErrorPayload with the single field error, never an empty result.        *)
C1_ExactlyOnePayload ==
    Returned => (IsErrorPayload(result) /\ ~IsSuccessPayload(result))
                \/ (IsSuccessPayload(result) /\ ~IsErrorPayload(result))

(* the decoded result is an ErrorPayload whose message names n as the     *)
(* unrecognized function                                                  *)
IsUnknownFunctionPayload(r, n) ==
    /\ IsErrorPayload(r)
    /\ Decode(r).obj.error.text = "Unknown function: "
    /\ Decode(r).obj.error.arg = n

(* C2: dispatch returns an ErrorPayload whose message names the           *)
(* unrecognized function if and only if the name is not one of the four    *)
(* catalog names; every catalog name runs its own implementation and       *)
(* returns its result verbatim; no implementation runs for any other name. *)
C2_UnknownIffNotInCatalog ==
    Returned =>
        /\ IsUnknownFunctionPayload(result, name) <=> (name \notin CatalogNames)
        /\ name \notin CatalogNames => invoked = "default"
        /\ name = calculate => invoked = "executeCalculate" /\ result = executeCalculate(args)
        /\ name = get_current_time =>
              /\ invoked = "executeGetCurrentTime"
              /\ \E clock \in Instants : result = executeGetCurrentTime(args, clock)
        /\ name = validate_email => invoked = "executeValidateEmail" /\ result = executeValidateEmail(args)
        /\ name = text_length_analysis => invoked = "executeTextAnalysis" /\ result = executeTextAnalysis(args)

(* the value r is the exact value of the operation on a and b *)
NumericallyCorrect(op, a, b, r) ==
    CASE op = add -> r.k = "fin" /\ r.n = (a + b) * r.d
      [] op = subtract -> r.k = "fin" /\ r.n = (a - b) * r.d
      [] op = multiply -> r.k = "fin" /\ r.n = (a * b) * r.d
      [] op = divide -> r.k = "fin" /\ r.n * b = a * r.d
      [] op = sqrt -> \/ r.k = "fin" /\ r.n >= 0 /\ r.n * r.n = a * r.d * r.d
                      \/ r.k = "sqrt" /\ r.of = a /\ \A q \in 0..a : q * q # a
      [] op = power -> IF b >= 0 THEN r.k = "fin" /\ r.n = IntPow(a, b) * r.d
                       ELSE IF a # 0 THEN r.k = "fin" /\ r.n * IntPow(a, -b) = r.d
                       ELSE r = PosInf

(* C3: for the six operations and numeric a and b, other than divide by    *)
(* zero and sqrt of a negative, calculate returns {operation, a, result}   *)
(* with the numerically correct result.                                    *)
C3_CalculateCorrect ==
    (/\ Returned /\ name = calculate
     /\ IsString(args.operation) /\ args.operation.s \in SixOperations
     /\ IsNumber(args.a) /\ IsNumber(args.b)
     /\ ~(args.operation.s = divide /\ args.b.n = 0)
     /\ ~(args.operation.s = sqrt /\ args.a.n < 0))
    => /\ IsSuccessPayload(result)
       /\ DOMAIN Obj = {"operation", "a", "result"}
       /\ Obj.operation = JString(args.operation.s)
       /\ Obj.a = JInt(args.a.n)
       /\ NumericallyCorrect(args.operation.s, args.a.n, args.b.n, Obj.result.v)

(* C4: divide with b zero, absent or not a number, and sqrt with a < 0,    *)
(* return an ErrorPayload without a result field.                          *)
C4_SemanticRejections ==
    (/\ Returned /\ name = calculate /\ IsString(args.operation)
     /\ \/ args.operation.s = divide /\ (args.b.t # "num" \/ args.b.n = 0)
        \/ args.operation.s = sqrt /\ args.a.t = "num" /\ args.a.n < 0)
    => /\ IsErrorPayload(result)
       /\ "result" \notin DOMAIN Obj
       /\ args.a.t = "num" =>
             result.prefix = (IF args.operation.s = divide
                              THEN "Cannot divide by zero"
                              ELSE "Cannot calculate square root of negative number")

C4_Witness ==
    /\ Returned /\ name = calculate
    /\ args.operation = Str(divide) /\ args.a = Num(3) /\ args.b = Absent
    /\ result = ErrorLiteral("Cannot divide by zero", <<>>)

(* C5: for a text of zero words text_length_analysis returns a payload     *)
(* whose average word length is one well-defined value, NaN or zero, with  *)
(* the other statistics reported; the result is never empty.               *)
C5_ZeroWordsWellDefined ==
    (Returned /\ name = text_length_analysis /\ IsString(args.text) /\ AllWhiteSpace(args.text.s))
    => /\ IsSuccessPayload(result)
       /\ {"text_length", "word_count", "character_count", "sentence_count",
           "average_word_len"} \subseteq DOMAIN Obj
       /\ Obj.average_word_len.v \in {NaN, Fin(0, 1)}
       /\ Obj.word_count = JInt(0)

(* C6: whenever text_length_analysis reports statistics, the reported      *)
(* length counts characters and equals the reported character count, the   *)
(* word count is the number of white-space-delimited words and the         *)
(* sentence count is the number of '.', '!' and '?'.                       *)
C6_LengthCountsCharacters ==
    (Returned /\ name = text_length_analysis /\ IsString(args.text) /\ IsSuccessPayload(result))
    => /\ Obj.text_length = JInt(Len(args.text.s))
       /\ Obj.text_length = Obj.character_count
       /\ Obj.word_count = JInt(Len(Fields(args.text.s)))
       /\ Obj.sentence_count =
             JInt(Cardinality({i \in 1..Len(args.text.s) : args.text.s[i] \in {".", "!", "?"}}))

(* C7: validate_email returns {email, valid, message}; valid is true       *)
(* exactly when the string holds an '@', holds a '.' and its length        *)
(* len(email) exceeds 5; email is echoed and message is the fixed text for *)
(* the value of valid.                                                     *)
C7_EmailHeuristic ==
    (Returned /\ name = validate_email /\ IsString(args.email))
    => LET email == args.email.s
           expected == /\ \E i \in 1..Len(email) : email[i] = "@"
                       /\ \E i \in 1..Len(email) : email[i] = "."
                       /\ ByteLen(email) > 5
       IN  /\ IsSuccessPayload(result)
           /\ DOMAIN Obj = {"email", "valid", "message"}
           /\ Obj.email = JString(email)
           /\ Obj.valid = JBool(expected)
           /\ Obj.message.v = (IF expected THEN "Email format is valid"
                               ELSE "Email format is invalid")

C7_Witness ==
    /\ Returned /\ name = validate_email
    /\ args.email = Str(<<"a", "@", "a", ".", "a", "a">>)
    /\ IsSuccessPayload(result)
    /\ Obj.valid = JBool(TRUE)

(* the names time.LoadLocation resolves to a zone when given by a caller *)
ValidTimezoneNames == {UTC, Local} \cup TzDatabase

(* C8: get_current_time falls back to UTC only when timezone is absent; a  *)
(* supplied timezone that is not a valid name, the empty string and values *)
(* of another type included, gives an ErrorPayload naming it.              *)
C8_NoSilentDefault ==
    (Returned /\ name = get_current_time)
    => /\ args.timezone = Absent =>
             IsSuccessPayload(result) /\ Obj.timezone = JString(UTC)
       /\ (args.timezone # Absent
           /\ ~(IsString(args.timezone) /\ args.timezone.s \in ValidTimezoneNames))
          => IsErrorPayload(result)

(* C9: in both handlers the collaborator is called at most once and only   *)
(* after the method, message and credentials checks passed; a request made *)
(* without credentials ends in an error and no call; the dispatcher is not *)
(* invoked while a request is handled.                                     *)
C9_CredentialsBeforeCall ==
    /\ calls <= 1
    /\ calls = 1 =>
          /\ method = "POST"
          /\ body.json /\ body.message.t = "str" /\ body.message.s # <<>>
          /\ env # <<>>
          /\ hpc \in {"reply", "done"}
    /\ env = <<>> => calls = 0 /\ upstream = NoCall
    /\ (hpc = "done" /\ env = <<>>) => resp.status \in {400, 405, 500}
    /\ hpc # "idle" => invoked = "none" /\ pc = "idle" /\ result = NoResult

C9_Witness ==
    /\ hpc = "done"
    /\ route = "/api/chat"
    /\ method = "POST"
    /\ message = <<"h", "i">>
    /\ env = <<>>
    /\ calls = 0
    /\ resp = HttpError(500, "Gemini API key not configured")

(* C10: a missing or mistyped required argument gives an ErrorPayload      *)
(* describing that parameter and never a success payload; calculate checks *)
(* operation, then a, before it interprets the operation, so the unknown   *)
(* operation error needs both to be well-typed.                            *)
C10_MalformedArguments ==
    Returned =>
        /\ (name = calculate /\ args.operation.t # "str") =>
              IsErrorPayload(result) /\ result.prefix = "operation parameter must be a string"
        /\ (name = calculate /\ args.operation.t = "str" /\ args.a.t # "num") =>
              IsErrorPayload(result) /\ result.prefix = "parameter 'a' must be a number"
        /\ (name = calculate /\ result.form = "literal" /\ result.prefix = "Unknown operation: ") =>
              args.operation.t = "str" /\ args.a.t = "num"
        /\ (name = validate_email /\ args.email.t # "str") =>
              IsErrorPayload(result) /\ result.prefix = "email parameter must be a string"
        /\ (name = text_length_analysis /\ args.text.t # "str") =>
              IsErrorPayload(result) /\ result.prefix = "text parameter must be a string"

C10_Witness ==
    /\ Returned /\ name = calculate
    /\ args.operation = Str(modulo) /\ args.a = Absent
    /\ result = ErrorLiteral("parameter 'a' must be a number", <<>>)

====
